---- MODULE Spec2Model ----
(***************************************************************************)
(* Connection / session lifecycle manager of the chat client (the          *)
(* useSocket hook): connection state machine, reconnection policy, room    *)
(* and typing trackers, outbound message pipeline; and the message history *)
(* of the selected room (the useMessageHistory hook).                      *)
(*                                                                         *)
(* One action is one run of a handler to completion (an event callback, a  *)
(* timer callback, a public call, or the continuation of an await),        *)
(* followed by the re-render it causes and the effects of that render: the *)
(* effect of lines 50-52 copies the rendered state into stateRef.  Inside  *)
(* a handler stateRef therefore still holds the values of the previous     *)
(* render, which is what the code reads through stateRef.current.          *)
(***************************************************************************)
EXTENDS Integers, Sequences, FiniteSets, TLC

(* ------------------------------ bounds --------------------------------- *)
\* getWsToken calls that may be pending at the same time
MaxInFlight == 2
\* sendMessage calls accepted in one run
MaxSends == 1
\* values of Math.random() * 1000, in whole milliseconds
Jitters == {0, 999}
\* entries the timeline may hold
MaxTimeline == 2
Rooms == {"r1"}
\* ids the server assigns
ServerIds == {"s1"}
\* contents a caller passes to sendMessage, as sequences of characters
Contents == { << " ", "h", "i", " " >>, << " ", " " >>, << >> }
\* user of the session and one remote user
LocalUser == "me"
RemoteUsers == {"bob"}
\* largest attempt count the delay formula is evaluated at
MaxExponent == 6
\* getMessageHistory calls that may be pending at the same time
MaxHistoryFetches == 2
\* last page of history a room has
MaxPage == 2
\* rooms the history hook is given; "" is no room
HistoryRooms == {"r1", "r2"}

(* ------------------------- program constants --------------------------- *)
maxReconnectAttempts == 5
maxConnectionAttempts == 3
BaseDelayUnit == 1000
MaxBaseDelay == 30000

VARIABLES
  connectionState,       \* useState: "disconnected" | "connecting" | "connected"
  reconnectAttempts,     \* useState
  lastError,             \* useState: "null" or the message
  joinedRooms,           \* useState
  typingUsers,           \* useState
  isShutdown,            \* useState
  realtimeMessages,      \* useState: sequence of [id, tempId, status]
  socketRef,             \* useRef: the transport, [phase, handshaken]
  reconnectTimeoutRef,   \* useRef: "null" | "armed" | "fired"
  reconnectDelay,        \* delay given to setTimeout for the armed reconnect timer
  reconnectTimers,       \* timers set by handleReconnection, neither fired nor cleared
  failTimersRef,         \* useRef: tempIds with a failure timer
  connectionAttemptRef,  \* useRef
  isConnectingRef,       \* useRef
  pendingConnectionRef,  \* useRef: "null" | "armed" | "fired"
  stateRef,              \* useRef: [connectionState, isAuthenticated, isShutdown]
  isAuthenticated,       \* useAuth()
  mounted,               \* the component using the hook is mounted
  fetches,               \* getWsToken calls awaiting their response
  pendingAcks,           \* tempIds whose emitWithAck promise is unsettled
  sends,                 \* number of tempIds generated so far
  lastOp,                \* the handler that ran last
  started,               \* the last handler started a connection attempt
  policy,                \* argument of handleReconnection in the last handler, -1 if not called
  emitted,               \* events the last handler emitted on the transport
  returned,              \* what the last sendMessage call returned so far
  toasts,                \* notices the last handler raised
  historyRoomId,         \* useMessageHistory: the roomId argument of the last render
  historyMessages,       \* useState: sequence of [id, roomId, status]
  isLoadingHistory,      \* useState
  page,                  \* useState
  hasMore,               \* useState
  hasLoadedInitial,      \* useState
  historyFetches         \* getMessageHistory calls awaiting their response, in order of issue

vars == << connectionState, reconnectAttempts, lastError, joinedRooms, typingUsers,
           isShutdown, realtimeMessages, socketRef, reconnectTimeoutRef, reconnectDelay,
           reconnectTimers, failTimersRef, connectionAttemptRef, isConnectingRef, pendingConnectionRef,
           stateRef, isAuthenticated, mounted, fetches, pendingAcks, sends,
           lastOp, started, policy, emitted, returned, toasts,
           historyRoomId, historyMessages, isLoadingHistory, page, hasMore,
           hasLoadedInitial, historyFetches >>

\* the state of useMessageHistory
historyVars == << historyRoomId, historyMessages, isLoadingHistory, page, hasMore,
                  hasLoadedInitial, historyFetches >>

\* the state of useSocket
socketVars == << connectionState, reconnectAttempts, lastError, joinedRooms, typingUsers,
                 isShutdown, realtimeMessages, socketRef, reconnectTimeoutRef, reconnectDelay,
                 reconnectTimers, failTimersRef, connectionAttemptRef, isConnectingRef,
                 pendingConnectionRef, stateRef, isAuthenticated, mounted, fetches,
                 pendingAcks, sends, lastOp, started, policy, emitted, returned, toasts >>

(* ---------------------- the state as one record ------------------------ *)
S ==
  [ connectionState |-> connectionState, reconnectAttempts |-> reconnectAttempts,
    lastError |-> lastError, joinedRooms |-> joinedRooms, typingUsers |-> typingUsers,
    isShutdown |-> isShutdown, realtimeMessages |-> realtimeMessages,
    socketRef |-> socketRef, reconnectTimeoutRef |-> reconnectTimeoutRef,
    reconnectDelay |-> reconnectDelay, reconnectTimers |-> reconnectTimers,
    failTimersRef |-> failTimersRef,
    connectionAttemptRef |-> connectionAttemptRef, isConnectingRef |-> isConnectingRef,
    pendingConnectionRef |-> pendingConnectionRef, stateRef |-> stateRef,
    isAuthenticated |-> isAuthenticated, mounted |-> mounted, fetches |-> fetches,
    pendingAcks |-> pendingAcks, sends |-> sends,
    lastOp |-> lastOp, started |-> FALSE, policy |-> -1, emitted |-> {},
    returned |-> "none", toasts |-> {} ]

Set(t) ==
  /\ connectionState' = t.connectionState
  /\ reconnectAttempts' = t.reconnectAttempts
  /\ lastError' = t.lastError
  /\ joinedRooms' = t.joinedRooms
  /\ typingUsers' = t.typingUsers
  /\ isShutdown' = t.isShutdown
  /\ realtimeMessages' = t.realtimeMessages
  /\ socketRef' = t.socketRef
  /\ reconnectTimeoutRef' = t.reconnectTimeoutRef
  /\ reconnectDelay' = t.reconnectDelay
  /\ reconnectTimers' = t.reconnectTimers
  /\ failTimersRef' = t.failTimersRef
  /\ connectionAttemptRef' = t.connectionAttemptRef
  /\ isConnectingRef' = t.isConnectingRef
  /\ pendingConnectionRef' = t.pendingConnectionRef
  /\ stateRef' = t.stateRef
  /\ isAuthenticated' = t.isAuthenticated
  /\ mounted' = t.mounted
  /\ fetches' = t.fetches
  /\ pendingAcks' = t.pendingAcks
  /\ sends' = t.sends
  /\ lastOp' = t.lastOp
  /\ started' = t.started
  /\ policy' = t.policy
  /\ emitted' = t.emitted
  /\ returned' = t.returned
  /\ toasts' = t.toasts
  /\ UNCHANGED historyVars

NoSocket == [phase |-> "null", handshaken |-> FALSE]
NewSocket == [phase |-> "opening", handshaken |-> FALSE]

\* the effect of lines 50-52, run after the render a handler causes
SyncStateRef(t) ==
  [t EXCEPT !.stateRef = [connectionState |-> t.connectionState,
                          isAuthenticated |-> t.isAuthenticated,
                          isShutdown |-> t.isShutdown]]

\* a handler named op took S to t; then render and effects
Done(op, t) ==
  /\ t.fetches <= MaxInFlight
  /\ Set(SyncStateRef([t EXCEPT !.lastOp = op]))

(* ----------------------------- cleanup --------------------------------- *)
\* a clearTimeout that cancels nothing
clearReconnectTimeoutNoop(s) == s.reconnectTimers

\* the timers left after clearTimeout(reconnectTimeoutRef.current), lines 57-61
\* and 92-95: a timer that has fired is not pending any more
clearReconnectTimeout(s) ==
  IF s.reconnectTimeoutRef = "armed" THEN s.reconnectTimers - 1 ELSE s.reconnectTimers

\* cleanup that forgets the failure timers of pending sends
cleanupKeepsFailTimers(s) ==
  [s EXCEPT !.reconnectTimeoutRef = "null",
            !.reconnectTimers = clearReconnectTimeout(s),
            !.reconnectDelay = 0,
            !.pendingConnectionRef = "null",
            !.isConnectingRef = FALSE,
            !.socketRef = NoSocket,
            !.pendingAcks = {},
            !.connectionState = "disconnected",
            !.joinedRooms = {},
            !.typingUsers = {},
            !.reconnectAttempts = 0,
            !.lastError = "null",
            !.connectionAttemptRef = 0]

\* a teardown that also empties the timeline
cleanupClearsMessages(s) ==
  [s EXCEPT !.reconnectTimeoutRef = "null",
            !.reconnectTimers = clearReconnectTimeout(s),
            !.reconnectDelay = 0,
            !.pendingConnectionRef = "null",
            !.failTimersRef = {},
            !.isConnectingRef = FALSE,
            !.socketRef = NoSocket,
            !.pendingAcks = {},
            !.connectionState = "disconnected",
            !.joinedRooms = {},
            !.typingUsers = {},
            !.reconnectAttempts = 0,
            !.lastError = "null",
            !.connectionAttemptRef = 0,
            !.realtimeMessages = << >>]

\* socket.disconnect() closes the transport: promises of emitWithAck on it never settle
cleanup(s) ==
  [s EXCEPT !.reconnectTimeoutRef = "null",
            !.reconnectTimers = clearReconnectTimeout(s),
            !.reconnectDelay = 0,
            !.pendingConnectionRef = "null",
            !.failTimersRef = {},
            !.isConnectingRef = FALSE,
            !.socketRef = NoSocket,
            !.pendingAcks = {},
            !.connectionState = "disconnected",
            !.joinedRooms = {},
            !.typingUsers = {},
            !.reconnectAttempts = 0,
            !.lastError = "null",
            !.connectionAttemptRef = 0]

(* ------------------------- reconnection policy ------------------------- *)
Min(a, b) == IF a < b THEN a ELSE b

\* a backoff that grows linearly with the attempt count
baseDelayLinear(n) == Min(BaseDelayUnit * 2 * n, MaxBaseDelay)

\* line 114
baseDelay(n) == Min(BaseDelayUnit * 2^n, MaxBaseDelay)

\* a policy that gives up at the ceiling without marking the episode shutdown
handleReconnectionNoShutdown(s, currentAttempt, jitter) ==
  LET s1 == [s EXCEPT !.reconnectTimeoutRef = "null", !.reconnectDelay = 0,
                      !.reconnectTimers = clearReconnectTimeout(s),
                      !.policy = currentAttempt]
  IN  IF \/ currentAttempt >= maxReconnectAttempts
         \/ s.stateRef.connectionState = "connecting"
         \/ s.stateRef.isShutdown
      THEN s1
      ELSE [s1 EXCEPT !.reconnectTimeoutRef = "armed",
                      !.reconnectTimers = @ + 1,
                      !.reconnectDelay = baseDelay(currentAttempt) + jitter]

handleReconnection(s, currentAttempt, jitter) ==
  LET s1 == [s EXCEPT !.reconnectTimeoutRef = "null", !.reconnectDelay = 0,
                      !.reconnectTimers = clearReconnectTimeout(s),
                      !.policy = currentAttempt]
      currentState == s.stateRef.connectionState
      currentShutdown == s.stateRef.isShutdown
  IN  IF \/ currentAttempt >= maxReconnectAttempts
         \/ currentState = "connecting"
         \/ currentShutdown
      THEN IF currentAttempt >= maxReconnectAttempts /\ ~currentShutdown
           THEN cleanup([s1 EXCEPT !.isShutdown = TRUE])
           ELSE s1
      ELSE [s1 EXCEPT !.reconnectTimeoutRef = "armed",
                      !.reconnectTimers = @ + 1,
                      !.reconnectDelay = baseDelay(currentAttempt) + jitter]

\* setReconnectAttempts((prev) => { next = prev + 1; handleReconnection(next); return next })
\* The updater runs in the render; the setState calls cleanup() makes from inside it
\* are render-phase updates, applied after the updater's own result.
incrementReconnectAttempts(s, jitter) ==
  LET next == s.reconnectAttempts + 1
  IN  handleReconnection([s EXCEPT !.reconnectAttempts = next], next, jitter)

(* --------------------------- socket listeners -------------------------- *)
handleSocketError(s, msg) ==
  [s EXCEPT !.lastError = msg, !.connectionState = "disconnected"]

\* a "connect" handler that asserts the logical state at socket open
onConnectAssertsConnected(s) ==
  [s EXCEPT !.reconnectAttempts = 0, !.connectionAttemptRef = 0,
            !.connectionState = "connected",
            !.socketRef = [@ EXCEPT !.phase = "open"]]

onConnect(s) ==
  [s EXCEPT !.reconnectAttempts = 0, !.connectionAttemptRef = 0,
            !.socketRef = [@ EXCEPT !.phase = "open"]]

onConnected(s) ==
  [s EXCEPT !.connectionState = "connected",
            !.socketRef = [@ EXCEPT !.handshaken = TRUE]]

\* a "disconnect" handler that does not look at the reason
onDisconnectAnyReason(s, reason, jitter) ==
  incrementReconnectAttempts(
    [s EXCEPT !.connectionState = "disconnected",
              !.joinedRooms = {},
              !.typingUsers = {},
              !.pendingAcks = {},
              !.socketRef = [@ EXCEPT !.phase = "closed"]], jitter)

\* the transport is closed when "disconnect" is delivered
onDisconnect(s, reason, jitter) ==
  LET s1 == [s EXCEPT !.connectionState = "disconnected",
                      !.joinedRooms = {},
                      !.typingUsers = {},
                      !.pendingAcks = {},
                      !.socketRef = [@ EXCEPT !.phase = "closed"]]
  IN  IF reason # "io client disconnect"
      THEN incrementReconnectAttempts(s1, jitter)
      ELSE s1

onJoinedRoom(s, roomId) == [s EXCEPT !.joinedRooms = @ \cup {roomId}]

onLeftRoom(s, roomId) == [s EXCEPT !.joinedRooms = @ \ {roomId}]

\* data.username of the events of the user with id u: the display name the
\* server holds for that user, distinct from the id
Usernames == [u \in RemoteUsers \cup {LocalUser} |-> IF u = LocalUser THEN "Me" ELSE "Bob"]

\* a handler that compares the display name with the local user's id
onUserTypingByName(s, userId, username, isTyping) ==
  IF username # LocalUser
  THEN [s EXCEPT !.typingUsers = IF isTyping THEN @ \cup {username} ELSE @ \ {username}]
  ELSE s

\* user?.id is the local user's id while authenticated
onUserTyping(s, userId, username, isTyping) ==
  IF userId # LocalUser
  THEN [s EXCEPT !.typingUsers = IF isTyping THEN @ \cup {username} ELSE @ \ {username}]
  ELSE s

(* ----------------------------- connectSocket --------------------------- *)
\* the guard without the authentication check
connectRefusedNoAuth(s) ==
  \/ s.isConnectingRef
  \/ s.stateRef.connectionState = "connecting"
  \/ s.stateRef.isShutdown

\* a guard that lets a shut-down episode connect again
connectRefusedIgnoresShutdown(s) ==
  \/ s.isConnectingRef
  \/ ~s.stateRef.isAuthenticated
  \/ s.stateRef.connectionState = "connecting"

\* lines 251-258: the calls that return at once
connectRefused(s) ==
  \/ s.isConnectingRef
  \/ ~s.stateRef.isAuthenticated
  \/ s.stateRef.connectionState = "connecting"
  \/ s.stateRef.isShutdown

\* lines 266-275: the attempt begins, up to the await of getWsToken()
startAttempt(s) ==
  [s EXCEPT !.isConnectingRef = TRUE,
            !.connectionAttemptRef = @ + 1,
            !.connectionState = "connecting",
            !.lastError = "null",
            !.fetches = @ + 1,
            !.started = TRUE]

\* a connectSocket without the cap on counted attempts
connectSocketNoCap(s) ==
  IF connectRefused(s) THEN s ELSE startAttempt(s)

\* up to the await of getWsToken()
connectSocket(s) ==
  IF connectRefused(s) THEN s
  ELSE IF s.connectionAttemptRef >= maxConnectionAttempts THEN s
  ELSE startAttempt(s)

\* a timer callback that trusts the check made when the timer was scheduled
reconnectTimerCallbackUnchecked(s) ==
  IF s.connectionAttemptRef >= maxConnectionAttempts THEN s ELSE startAttempt(s)

\* the callback of the reconnect timer, lines 124-134
reconnectTimerCallback(s) ==
  IF /\ s.stateRef.isAuthenticated
     /\ s.stateRef.connectionState # "connecting"
     /\ ~s.stateRef.isShutdown
     /\ ~s.isConnectingRef
  THEN connectSocket(s) ELSE s

\* an open that leaves the credential response available to a further open
connectSocketOpenKeepsToken(s) ==
  LET s1 == IF s.socketRef.phase = "null" THEN s
            ELSE IF s.socketRef.phase = "open"
                 THEN onDisconnect(s, "io client disconnect", 0)
                 ELSE [s EXCEPT !.socketRef = [@ EXCEPT !.phase = "closed"]]
  IN  [s1 EXCEPT !.socketRef = NewSocket]

\* after the await, the token was obtained: lines 281-297
connectSocketOpen(s) ==
  LET s1 == IF s.socketRef.phase = "null" THEN s
            ELSE IF s.socketRef.phase = "open"
                 THEN onDisconnect(s, "io client disconnect", 0)
                 ELSE [s EXCEPT !.socketRef = [@ EXCEPT !.phase = "closed"]]
  IN  [s1 EXCEPT !.socketRef = NewSocket, !.fetches = @ - 1]

\* after the await, no token: lines 298-312
connectSocketCatch(s, msg, jitter) ==
  incrementReconnectAttempts(
    [s EXCEPT !.isConnectingRef = FALSE,
              !.connectionState = "disconnected",
              !.lastError = msg,
              !.fetches = @ - 1], jitter)

(* ------------------------ outbound message pipeline -------------------- *)
RECURSIVE trimStart(_)
trimStart(c) == IF c # << >> /\ Head(c) = " " THEN trimStart(Tail(c)) ELSE c

RECURSIVE trimEnd(_)
trimEnd(c) == IF c # << >> /\ c[Len(c)] = " " THEN trimEnd(SubSeq(c, 1, Len(c) - 1)) ELSE c

\* String.prototype.trim
trim(c) == trimEnd(trimStart(c))

\* `temp-${Date.now()}-${Math.random()...}`: the n-th id generated
tempIdOf(n) == "t" \o ToString(n)

TempIds == { tempIdOf(n) : n \in 1..MaxSends }

\* the tempIds sent so far: the ones the server can name in an event
sentIds(s) == { tempIdOf(n) : n \in 1..s.sends }

\* prev.map((m) => cond(m) ? { ...m, status } : m) for cond "m.tempId === tempId",
\* with onlySending adding "&& m.status === 'sending'"
setStatus(msgs, tempId, status, onlySending) ==
  [i \in 1..Len(msgs) |->
     IF msgs[i].tempId = tempId /\ (onlySending => msgs[i].status = "sending")
     THEN [msgs[i] EXCEPT !.status = status] ELSE msgs[i]]

\* a sendMessage that appends the content as typed
sendMessageUntrimmed(s, content) ==
  IF s.socketRef.phase # "open"
  THEN [s EXCEPT !.toasts = {"Not connected"}, !.returned = "false"]
  ELSE IF trim(content) = << >>
  THEN [s EXCEPT !.returned = "false"]
  ELSE LET tempId == tempIdOf(s.sends + 1)
       IN  [s EXCEPT !.sends = @ + 1,
                     !.realtimeMessages =
                        Append(@, [id |-> tempId, tempId |-> tempId,
                                   content |-> content, status |-> "sending"]),
                     !.failTimersRef = @ \cup {tempId},
                     !.pendingAcks = @ \cup {tempId},
                     !.emitted = {[event |-> "send_message", tempId |-> tempId,
                                   content |-> trim(content)]},
                     !.returned = "pending"]

\* lines 320-363, up to the await of emitWithAck
sendMessage(s, content) ==
  IF s.socketRef.phase # "open"
  THEN [s EXCEPT !.toasts = {"Not connected"}, !.returned = "false"]
  ELSE IF trim(content) = << >>
  THEN [s EXCEPT !.returned = "false"]
  ELSE LET tempId == tempIdOf(s.sends + 1)
       IN  [s EXCEPT !.sends = @ + 1,
                     !.realtimeMessages =
                        Append(@, [id |-> tempId, tempId |-> tempId,
                                   content |-> trim(content), status |-> "sending"]),
                     !.failTimersRef = @ \cup {tempId},
                     !.pendingAcks = @ \cup {tempId},
                     !.emitted = {[event |-> "send_message", tempId |-> tempId,
                                   content |-> trim(content)]},
                     !.returned = "pending"]

\* the failure timer of lines 352-361
failTimer(s, tempId) ==
  [s EXCEPT !.realtimeMessages =
               setStatus(@, tempId, "failed", TRUE),
            !.failTimersRef = @ \ {tempId}]

\* an acknowledgement path that marks the message confirmed itself
sendMessageAckedConfirms(s, tempId) ==
  [s EXCEPT !.failTimersRef = @ \ {tempId}, !.pendingAcks = @ \ {tempId},
            !.realtimeMessages = setStatus(@, tempId, "confirmed", TRUE),
            !.returned = "true"]

\* lines 372-379: the acknowledgement arrived
sendMessageAcked(s, tempId) ==
  [s EXCEPT !.failTimersRef = @ \ {tempId}, !.pendingAcks = @ \ {tempId},
            !.returned = "true"]

\* an acknowledgement failure that is treated as a loss of the connection
sendMessageCatchEscalates(s, tempId) ==
  incrementReconnectAttempts(
    [s EXCEPT !.failTimersRef = @ \ {tempId}, !.pendingAcks = @ \ {tempId},
              !.realtimeMessages = setStatus(@, tempId, "failed", FALSE),
              !.toasts = {"Server did not acknowledge the message."},
              !.connectionState = "disconnected",
              !.returned = "false"], 0)

\* lines 380-401: emitWithAck rejected
sendMessageCatch(s, tempId) ==
  [s EXCEPT !.failTimersRef = @ \ {tempId}, !.pendingAcks = @ \ {tempId},
            !.realtimeMessages =
               setStatus(@, tempId, "failed", FALSE),
            !.toasts = {"Server did not acknowledge the message."},
            !.returned = "false"]

\* a handler that adds the confirmed copy to the timeline instead of rewriting the entry
onMessageConfirmedAppends(s, tempId, id, status) ==
  [s EXCEPT !.realtimeMessages =
               @ \o [i \in 1..Len(SelectSeq(@, LAMBDA m : m.tempId = tempId)) |->
                      [SelectSeq(@, LAMBDA m : m.tempId = tempId)[i]
                         EXCEPT !.id = id, !.status = status]],
            !.failTimersRef = @ \ {tempId}]

onMessageConfirmed(s, tempId, id, status) ==
  [s EXCEPT !.realtimeMessages =
               [i \in 1..Len(@) |->
                  IF @[i].tempId = tempId
                  THEN [@[i] EXCEPT !.id = id, !.status = status] ELSE @[i]],
            !.failTimersRef =
               IF \E i \in 1..Len(s.realtimeMessages) : s.realtimeMessages[i].tempId = tempId
               THEN @ \ {tempId} ELSE @]

\* a handler that raises a fixed notice and drops the server's error string
onMessageErrorFixedNotice(s, tempId, error) ==
  [s EXCEPT !.realtimeMessages =
               setStatus(@, tempId, "failed", FALSE),
            !.toasts = {"An unknown error occurred."}]

onMessageError(s, tempId, error) ==
  [s EXCEPT !.realtimeMessages =
               setStatus(@, tempId, "failed", FALSE),
            !.toasts = {IF error # "" THEN error ELSE "An unknown error occurred."}]

\* a sink that overwrites the entries the pushed message matches by tempId
onNewMessageUpserts(s, message) ==
  IF \E i \in 1..Len(s.realtimeMessages) : s.realtimeMessages[i].tempId = message.tempId
  THEN [s EXCEPT !.realtimeMessages =
                    [i \in 1..Len(@) |->
                       IF @[i].tempId = message.tempId
                       THEN [message EXCEPT !.status = "sending"] ELSE @[i]]]
  ELSE [s EXCEPT !.realtimeMessages = Append(@, [message EXCEPT !.status = "sending"])]

onNewMessage(s, message) ==
  [s EXCEPT !.realtimeMessages = Append(@, [message EXCEPT !.status = "sending"])]

clearMessages(s) == [s EXCEPT !.realtimeMessages = << >>]

(* ---------------------- rooms and typing, outbound --------------------- *)
\* a join that records the membership at request time
joinRoomOptimistic(s, roomId) ==
  IF s.socketRef.phase = "open" /\ roomId \notin s.joinedRooms
  THEN [s EXCEPT !.emitted = {[event |-> "join_room", roomId |-> roomId]},
                 !.joinedRooms = @ \cup {roomId}]
  ELSE s

joinRoom(s, roomId) ==
  IF s.socketRef.phase = "open" /\ roomId \notin s.joinedRooms
  THEN [s EXCEPT !.emitted = {[event |-> "join_room", roomId |-> roomId]}]
  ELSE s

emitIfConnected(s, event, roomId) ==
  IF s.socketRef.phase = "open"
  THEN [s EXCEPT !.emitted = {[event |-> event, roomId |-> roomId]}]
  ELSE s

leaveRoom(s, roomId) == emitIfConnected(s, "leave_room", roomId)

startTyping(s, roomId) == emitIfConnected(s, "typing_start", roomId)

stopTyping(s, roomId) == emitIfConnected(s, "typing_stop", roomId)

(* ------------------------- message history hook ------------------------ *)
H ==
  [ roomId |-> historyRoomId, historyMessages |-> historyMessages,
    isLoadingHistory |-> isLoadingHistory, page |-> page, hasMore |-> hasMore,
    hasLoadedInitial |-> hasLoadedInitial, historyFetches |-> historyFetches ]

SetHistory(h) ==
  /\ historyRoomId' = h.roomId
  /\ historyMessages' = h.historyMessages
  /\ isLoadingHistory' = h.isLoadingHistory
  /\ page' = h.page
  /\ hasMore' = h.hasMore
  /\ hasLoadedInitial' = h.hasLoadedInitial
  /\ historyFetches' = h.historyFetches
  /\ Len(h.historyFetches) <= MaxHistoryFetches
  /\ UNCHANGED socketVars

\* what the API returns for a page of a room: one message of that room
rawMessages(currentRoomId, currentPage) ==
  << [id |-> << currentRoomId, currentPage >>, roomId |-> currentRoomId] >>

\* lines 42-51
transformedMessages(raw) ==
  [i \in 1..Len(raw) |-> [id |-> raw[i].id, roomId |-> raw[i].roomId, status |-> "sent"]]

\* lines 30-36: fetchHistory up to the await of getMessageHistory
fetchHistory(h, currentPage, currentRoomId) ==
  IF currentRoomId = "" THEN h
  ELSE [h EXCEPT !.isLoadingHistory = TRUE,
                 !.historyFetches = Append(@, [page |-> currentPage, roomId |-> currentRoomId])]

\* lines 38-60 and 74-76: the response is a success
fetchHistoryOk(h, currentPage, currentRoomId, hasMorePages) ==
  LET msgs == transformedMessages(rawMessages(currentRoomId, currentPage))
  IN  [h EXCEPT !.historyMessages = IF currentPage = 1 THEN msgs ELSE @ \o msgs,
                !.hasMore = hasMorePages,
                !.isLoadingHistory = FALSE]

\* lines 61-76: the response is a failure, or the call threw
fetchHistoryFailed(h, currentPage) ==
  [h EXCEPT !.historyMessages = IF currentPage = 1 THEN << >> ELSE @,
            !.hasMore = FALSE,
            !.isLoadingHistory = FALSE]

\* the effect of lines 82-93, run when roomId has changed
roomChangeEffect(h, newRoomId) ==
  LET h1 == [h EXCEPT !.roomId = newRoomId,
                      !.historyMessages = << >>,
                      !.page = 1,
                      !.hasMore = TRUE,
                      !.hasLoadedInitial = (newRoomId # "")]
  IN  fetchHistory(h1, 1, newRoomId)

\* lines 95-100
loadMoreHistory(h) ==
  IF h.isLoadingHistory \/ ~h.hasMore \/ h.roomId = "" THEN h
  ELSE fetchHistory([h EXCEPT !.page = @ + 1], h.page + 1, h.roomId)

\* lines 102-107
refreshMessages(h) ==
  IF h.roomId = "" THEN h
  ELSE fetchHistory([h EXCEPT !.page = 1, !.hasMore = TRUE], 1, h.roomId)

\* the request at position i is answered and leaves the pending ones
answered(h, i) ==
  [h EXCEPT !.historyFetches =
               SubSeq(@, 1, i - 1) \o SubSeq(@, i + 1, Len(@))]

(* ------------------------------- actions ------------------------------- *)
Init ==
  /\ connectionState = "disconnected"
  /\ reconnectAttempts = 0
  /\ lastError = "null"
  /\ joinedRooms = {}
  /\ typingUsers = {}
  /\ isShutdown = FALSE
  /\ realtimeMessages = << >>
  /\ socketRef = NoSocket
  /\ reconnectTimeoutRef = "null"
  /\ reconnectDelay = 0
  /\ reconnectTimers = 0
  /\ failTimersRef = {}
  /\ connectionAttemptRef = 0
  /\ isConnectingRef = FALSE
  /\ isAuthenticated \in BOOLEAN
  /\ pendingConnectionRef = IF isAuthenticated THEN "armed" ELSE "null"
  /\ stateRef = [connectionState |-> "disconnected", isAuthenticated |-> isAuthenticated,
                 isShutdown |-> FALSE]
  /\ mounted = TRUE
  /\ fetches = 0
  /\ pendingAcks = {}
  /\ sends = 0
  /\ lastOp = "mount"
  /\ started = FALSE
  /\ policy = -1
  /\ emitted = {}
  /\ returned = "none"
  /\ toasts = {}
  /\ historyRoomId = ""
  /\ historyMessages = << >>
  /\ isLoadingHistory = FALSE
  /\ page = 1
  /\ hasMore = TRUE
  /\ hasLoadedInitial = FALSE
  /\ historyFetches = << >>

\* the auth effect of lines 444-480 when isAuthenticated has become true
Login ==
  /\ mounted /\ ~isAuthenticated
  /\ Done("login", [S EXCEPT !.isAuthenticated = TRUE, !.pendingConnectionRef = "armed"])

\* the auth effect when isAuthenticated has become false
Logout ==
  /\ mounted /\ isAuthenticated
  /\ Done("logout", cleanup([S EXCEPT !.isAuthenticated = FALSE, !.pendingConnectionRef = "null"]))

\* the cleanups of the effects of lines 474-479 and 482-486
Unmount ==
  /\ mounted
  /\ Done("unmount", cleanup([S EXCEPT !.mounted = FALSE, !.pendingConnectionRef = "null"]))

\* the timer of lines 456-460
DebounceTimerFires ==
  /\ mounted /\ pendingConnectionRef = "armed"
  /\ LET s == [S EXCEPT !.pendingConnectionRef = "fired"]
     IN  Done("debounceTimer", IF s.stateRef.isAuthenticated THEN connectSocket(s) ELSE s)

\* the timer of lines 124-134
ReconnectTimerFires ==
  /\ mounted /\ reconnectTimeoutRef = "armed"
  /\ LET s == [S EXCEPT !.reconnectTimeoutRef = "fired", !.reconnectTimers = @ - 1]
     IN  Done("reconnectTimer", reconnectTimerCallback(s))

\* a call of the connectSocket the hook returns
ConnectSocket ==
  /\ mounted
  /\ Done("connectSocket", connectSocket(S))

reconnect(s) == connectSocket([s EXCEPT !.isShutdown = FALSE, !.reconnectAttempts = 0])

Reconnect ==
  /\ mounted
  /\ Done("reconnect", reconnect(S))

GetWsTokenSucceeds ==
  /\ fetches > 0
  /\ Done("tokenOk", connectSocketOpen(S))

\* after the unmount the state setters do nothing and no render runs the updater
GetWsTokenFails ==
  /\ fetches > 0
  /\ \E j \in Jitters :
       Done("tokenFailed",
            IF mounted THEN connectSocketCatch(S, "token", j)
            ELSE [S EXCEPT !.isConnectingRef = FALSE, !.fetches = @ - 1])

SocketConnect ==
  /\ mounted /\ socketRef.phase = "opening"
  /\ Done("connect", onConnect(S))

SocketConnected ==
  /\ mounted /\ socketRef.phase = "open"
  /\ Done("connected", onConnected(S))

SocketDisconnect ==
  /\ mounted /\ socketRef.phase = "open"
  /\ \E j \in Jitters : Done("disconnect", onDisconnect(S, "transport close", j))

\* "connect_error": the transport could not be opened
SocketConnectError ==
  /\ mounted /\ socketRef.phase = "opening"
  /\ Done("connect_error",
          handleSocketError([S EXCEPT !.socketRef = [@ EXCEPT !.phase = "closed"]], "socket"))

SocketError ==
  /\ mounted /\ socketRef.phase = "open"
  /\ Done("error", handleSocketError(S, "socket"))

JoinedRoom ==
  /\ mounted /\ socketRef.phase = "open"
  /\ \E r \in Rooms : Done("joined_room", onJoinedRoom(S, r))

LeftRoom ==
  /\ mounted /\ socketRef.phase = "open"
  /\ \E r \in Rooms : Done("left_room", onLeftRoom(S, r))

UserTyping ==
  /\ mounted /\ socketRef.phase = "open"
  /\ \E u \in RemoteUsers \cup {LocalUser}, b \in BOOLEAN :
       Done("user_typing", onUserTyping(S, u, Usernames[u], b))

\* the timer of the effect of lines 488-493
ErrorTimerFires ==
  /\ mounted /\ lastError # "null"
  /\ Done("errorTimer", [S EXCEPT !.lastError = "null"])

(* the outbound pipeline and the inbound sink *)
SendMessage ==
  /\ mounted /\ sends < MaxSends /\ Len(realtimeMessages) < MaxTimeline
  /\ \E c \in Contents : Done("sendMessage", sendMessage(S, c))

FailTimerFires ==
  /\ mounted
  /\ \E id \in failTimersRef : Done("failTimer", failTimer(S, id))

SendMessageAcked ==
  /\ mounted
  /\ \E id \in pendingAcks : Done("ack", sendMessageAcked(S, id))

SendMessageRejected ==
  /\ mounted
  /\ \E id \in pendingAcks : Done("ackFailed", sendMessageCatch(S, id))

MessageConfirmed ==
  /\ mounted /\ socketRef.phase = "open"
  /\ \E id \in sentIds(S), sid \in ServerIds :
       Done("message_confirmed", onMessageConfirmed(S, id, sid, "confirmed"))

MessageError ==
  /\ mounted /\ socketRef.phase = "open"
  /\ \E id \in sentIds(S), e \in {"room full", ""} :
       Done("message_error", onMessageError(S, id, e))

\* "new_message" for a message of another user: it carries no tempId
NewMessage ==
  /\ mounted /\ socketRef.phase = "open" /\ Len(realtimeMessages) < MaxTimeline
  /\ \E sid \in ServerIds :
       Done("new_message",
            onNewMessage(S, [id |-> sid, tempId |-> "none", content |-> << "y", "o" >>,
                             status |-> "sent"]))

\* "new_message" for a message this client sent: it carries the tempId of the send
NewMessageEcho ==
  /\ mounted /\ socketRef.phase = "open" /\ Len(realtimeMessages) < MaxTimeline
  /\ \E sid \in ServerIds, id \in sentIds(S) :
       Done("new_message",
            onNewMessage(S, [id |-> sid, tempId |-> id, content |-> << "h", "i" >>,
                             status |-> "sent"]))

ClearMessages ==
  /\ mounted /\ realtimeMessages # << >>
  /\ Done("clearMessages", clearMessages(S))

\* the rooms the interface offers: the calls and the room events of the room
\* specification range over two of them
ChatRooms == Rooms \cup {"r2"}

JoinRoom ==
  /\ mounted
  /\ \E r \in ChatRooms : Done("joinRoom", joinRoom(S, r))

LeaveRoom ==
  /\ mounted
  /\ \E r \in ChatRooms : Done("leaveRoom", leaveRoom(S, r))

StartTyping ==
  /\ mounted
  /\ \E r \in ChatRooms : Done("startTyping", startTyping(S, r))

StopTyping ==
  /\ mounted
  /\ \E r \in ChatRooms : Done("stopTyping", stopTyping(S, r))

\* joined_room and left_room for any of the rooms
RoomJoined ==
  /\ mounted /\ socketRef.phase = "open"
  /\ \E r \in ChatRooms : Done("joined_room", onJoinedRoom(S, r))

RoomLeft ==
  /\ mounted /\ socketRef.phase = "open"
  /\ \E r \in ChatRooms : Done("left_room", onLeftRoom(S, r))

\* the connection lifecycle
Next ==
  \/ Login
  \/ Logout
  \/ Unmount
  \/ DebounceTimerFires
  \/ ReconnectTimerFires
  \/ ConnectSocket
  \/ Reconnect
  \/ GetWsTokenSucceeds
  \/ GetWsTokenFails
  \/ SocketConnect
  \/ SocketConnected
  \/ SocketDisconnect
  \/ SocketConnectError
  \/ SocketError
  \/ JoinedRoom
  \/ LeftRoom
  \/ UserTyping
  \/ ErrorTimerFires

Spec == Init /\ [][Next]_vars

\* the lifecycle with sends in flight: teardown with every kind of timer pending
NextTeardown ==
  \/ Login
  \/ Logout
  \/ Unmount
  \/ DebounceTimerFires
  \/ ReconnectTimerFires
  \/ GetWsTokenSucceeds
  \/ GetWsTokenFails
  \/ SocketConnect
  \/ SocketConnected
  \/ SocketDisconnect
  \/ JoinedRoom
  \/ UserTyping
  \/ SendMessage

SpecTeardown == Init /\ [][NextTeardown]_vars

\* the outbound pipeline and the inbound sink over one connection at a time
NextMessages ==
  \/ Login
  \/ Logout
  \/ DebounceTimerFires
  \/ GetWsTokenSucceeds
  \/ SocketConnect
  \/ SocketConnected
  \/ SocketDisconnect
  \/ SendMessage
  \/ FailTimerFires
  \/ SendMessageAcked
  \/ SendMessageRejected
  \/ MessageConfirmed
  \/ MessageError
  \/ NewMessage
  \/ NewMessageEcho
  \/ ClearMessages

SpecMessages == Init /\ [][NextMessages]_vars

\* the inbound sink on one connection: pushes, echoes of the client's own
\* messages and the status events against the timeline
NextInbound ==
  \/ DebounceTimerFires
  \/ GetWsTokenSucceeds
  \/ SocketConnect
  \/ SocketConnected
  \/ SendMessage
  \/ FailTimerFires
  \/ SendMessageAcked
  \/ SendMessageRejected
  \/ MessageConfirmed
  \/ MessageError
  \/ NewMessage
  \/ NewMessageEcho
  \/ ClearMessages

SpecInbound == Init /\ [][NextInbound]_vars

\* room membership: the outbound room and typing calls against the room events
NextRooms ==
  \/ Login
  \/ Logout
  \/ DebounceTimerFires
  \/ GetWsTokenSucceeds
  \/ SocketConnect
  \/ SocketConnected
  \/ SocketDisconnect
  \/ SocketError
  \/ RoomJoined
  \/ RoomLeft
  \/ JoinRoom
  \/ LeaveRoom
  \/ StartTyping
  \/ StopTyping
  \/ SendMessage

SpecRooms == Init /\ [][NextRooms]_vars

\* the component is rendered with another roomId
RoomChanges ==
  \E r \in (HistoryRooms \cup {""}) \ {historyRoomId} :
    SetHistory(roomChangeEffect(H, r))

LoadMoreHistory ==
  /\ page < MaxPage
  /\ SetHistory(loadMoreHistory(H))

RefreshMessages ==
  SetHistory(refreshMessages(H))

\* getMessageHistory resolves with success: true and the page's messages
HistoryFetchSucceeds ==
  \E i \in 1..Len(historyFetches), hasMorePages \in BOOLEAN :
    SetHistory(fetchHistoryOk(answered(H, i), historyFetches[i].page,
                              historyFetches[i].roomId, hasMorePages))

\* getMessageHistory resolves with success: false, or rejects
HistoryFetchFails ==
  \E i \in 1..Len(historyFetches) :
    SetHistory(fetchHistoryFailed(answered(H, i), historyFetches[i].page))

\* the message history of the selected room
NextHistory ==
  \/ RoomChanges
  \/ LoadMoreHistory
  \/ RefreshMessages
  \/ HistoryFetchSucceeds
  \/ HistoryFetchFails

SpecHistory == Init /\ [][NextHistory]_vars

\* the outbound pipeline with the messages of other users arriving
NextPipeline ==
  \/ Login
  \/ Logout
  \/ DebounceTimerFires
  \/ GetWsTokenSucceeds
  \/ SocketConnect
  \/ SocketConnected
  \/ SocketDisconnect
  \/ SendMessage
  \/ FailTimerFires
  \/ SendMessageAcked
  \/ SendMessageRejected
  \/ MessageConfirmed
  \/ MessageError
  \/ NewMessage
  \/ ClearMessages

SpecPipeline == Init /\ [][NextPipeline]_vars

\* one authenticated session without teardown
NextSession ==
  \/ Login
  \/ DebounceTimerFires
  \/ ReconnectTimerFires
  \/ GetWsTokenSucceeds
  \/ GetWsTokenFails
  \/ SocketConnect
  \/ SocketConnected
  \/ SocketDisconnect
  \/ JoinedRoom
  \/ SendMessage
  \/ FailTimerFires
  \/ SendMessageAcked
  \/ SendMessageRejected
  \/ MessageConfirmed
  \/ MessageError
  \/ NewMessage

\* a timer that was set and is not cleared runs its callback; the server and the
\* network owe nothing
SpecSessionFair ==
  /\ Init
  /\ [][NextSession]_vars
  /\ WF_vars(FailTimerFires)
  /\ WF_vars(DebounceTimerFires)
  /\ WF_vars(ReconnectTimerFires)

(* =============================== claims =============================== *)
\* the state of the program, without the record of the last handler
progVars == << connectionState, reconnectAttempts, lastError, joinedRooms, typingUsers,
               isShutdown, realtimeMessages, socketRef, reconnectTimeoutRef, reconnectDelay,
               reconnectTimers, failTimersRef, connectionAttemptRef, isConnectingRef, pendingConnectionRef,
               stateRef, isAuthenticated, mounted, fetches, pendingAcks, sends >>

\* connection attempts outstanding: credential fetches pending and a transport being opened
Outstanding == fetches + (IF socketRef.phase = "opening" THEN 1 ELSE 0)

\* C1: when the backoff timer fires while the session is authenticated, shutdown is
\* not set, fewer than 5 consecutive failures have occurred and no attempt is
\* outstanding nor a transport open, a new connection attempt is started without
\* any user action.
C1_TimerFireStartsAttempt ==
  [][ ( /\ lastOp' = "reconnectTimer"
        /\ isAuthenticated
        /\ ~isShutdown
        /\ reconnectAttempts < maxReconnectAttempts
        /\ Outstanding = 0
        /\ socketRef.phase # "open" ) => started' ]_vars

C3_ReconnectResumes ==
  [][ (isShutdown /\ isAuthenticated /\ lastOp' = "reconnect") =>
        ( /\ ~isShutdown'
          /\ reconnectAttempts' = 0
          /\ started'
          /\ connectionState' = "connecting"
          /\ fetches' = fetches + 1 ) ]_vars

\* the four conditions under which connect() must do nothing
C4_Refusing ==
  \/ isConnectingRef
  \/ ~isAuthenticated
  \/ connectionState = "connecting"
  \/ isShutdown

C5_OneOutstandingAttempt == Outstanding <= 1

\* C6: the transport-level open resets the reconnect counter and leaves
\* connectionState unchanged; connectionState becomes connected only in the
\* handler of the "connected" event, and is connected only while the current
\* transport has received that event.
C6_TwoPhase ==
  [][ /\ (lastOp' = "connect") =>
           (connectionState' = connectionState /\ reconnectAttempts' = 0)
      /\ (connectionState' = "connected" /\ connectionState # "connected") =>
           (lastOp' = "connected")
      /\ (connectionState' = "connected") =>
           (socketRef'.phase = "open" /\ socketRef'.handshaken) ]_vars

\* the pipe is open, the session is not yet authorized
C6_Witness ==
  /\ lastOp = "connect"
  /\ socketRef.phase = "open" /\ ~socketRef.handshaken
  /\ connectionState = "connecting"
  /\ reconnectAttempts = 0

\* C7: after an error or connect_error event connectionState is disconnected, the
\* message is in lastError and the reconnection policy has been invoked.
C7_ErrorInvokesPolicy ==
  (lastOp \in {"error", "connect_error"}) =>
    ( /\ connectionState = "disconnected"
      /\ lastError = "socket"
      /\ policy # -1
      /\ (reconnectTimeoutRef = "armed" \/ isShutdown) )

\* C8: after a failed credential fetch no transport was opened for the attempt,
\* the in-flight guard is released, and either shutdown was set at the ceiling or
\* the state is disconnected, the error is captured, the reconnect counter was
\* incremented and a reconnect timer is scheduled.
C8_CredentialFailureRouted ==
  (lastOp = "tokenFailed" /\ mounted) =>
    ( /\ ~isConnectingRef
      /\ policy >= 1
      /\ \/ isShutdown
         \/ /\ connectionState = "disconnected"
            /\ lastError = "token"
            /\ reconnectAttempts = policy
            /\ reconnectTimeoutRef = "armed" )

\* the handler delivered "disconnect" with reason "io client disconnect": connect()
\* closed a transport that was open
C9_ClientDisconnectStep == lastOp' = "tokenOk" /\ socketRef.phase = "open" /\ mounted

TornDown(t) ==
  /\ t.reconnectTimeoutRef = "null"
  /\ t.pendingConnectionRef = "null"
  /\ t.failTimersRef = {}
  /\ t.socketRef = NoSocket
  /\ t.connectionState = "disconnected"
  /\ t.joinedRooms = {}
  /\ t.typingUsers = {}
  /\ t.reconnectAttempts = 0
  /\ t.connectionAttemptRef = 0
  /\ t.lastError = "null"
  /\ ~t.isConnectingRef

\* C10: teardown run in any reachable state cancels the reconnect timer, the
\* debounce timer and every failure timer, drops the transport, and resets
\* connectionState, rooms, typing users, both counters and lastError; a second
\* teardown changes nothing; logout and unmount leave exactly that state.
C10_TeardownResets ==
  /\ TornDown(cleanup(S))
  /\ cleanup(cleanup(S)) = cleanup(S)
  /\ (lastOp \in {"logout", "unmount"}) => (TornDown(S) /\ cleanup(S) = S)

\* a state in which teardown has every kind of thing to clear
C10_Witness ==
  /\ failTimersRef # {}
  /\ reconnectTimeoutRef = "armed"
  /\ pendingConnectionRef # "null"
  /\ socketRef.phase = "open"
  /\ joinedRooms # {} /\ typingUsers # {}
  /\ reconnectAttempts > 0 /\ connectionAttemptRef > 0
  /\ lastError # "null"

\* C11: after teardown (logout or unmount) and until a new connect() is started, no
\* timer callback, transport event or completion of an earlier credential fetch
\* changes connectionState, the joined rooms, the typing users or the transport
\* handle.  While the session is unauthenticated or unmounted connect() refuses,
\* so every handler that runs there other than login runs after teardown.
C11_NoZombieCallbacks ==
  [][ ( /\ ~isAuthenticated \/ ~mounted
        /\ lastOp' \notin {"login", "logout", "unmount"} ) =>
        UNCHANGED << connectionState, joinedRooms, typingUsers, socketRef >> ]_vars

\* C12: once a newer connection attempt has begun, no event of the transport it
\* supersedes changes connectionState, the joined rooms, the typing users, the
\* reconnect counter or the timeline: in particular the step in which connect()
\* closes the existing transport and opens the new one leaves them unchanged.
C12_SupersededTransportSilent ==
  [][ (lastOp' = "tokenOk") =>
        UNCHANGED << connectionState, joinedRooms, typingUsers, reconnectAttempts,
                     realtimeMessages >> ]_vars

\* the conditions under which a firing of the reconnect timer is skipped
C13_Skip ==
  \/ ~isAuthenticated
  \/ connectionState = "connecting"
  \/ isConnectingRef
  \/ isShutdown

\* C13: when the reconnect timer fires it starts a connection attempt only if, in
\* the state at fire time, the session is authenticated, no connection is in
\* progress and shutdown is not set; otherwise the firing starts nothing and
\* changes no state (the timer itself has expired).
C13_FireTimeCheck ==
  [][ (lastOp' = "reconnectTimer") =>
        /\ started' => ~C13_Skip
        /\ C13_Skip =>
             /\ ~started'
             /\ reconnectTimeoutRef' = "fired"
             /\ UNCHANGED << connectionState, reconnectAttempts, lastError, joinedRooms,
                             typingUsers, isShutdown, realtimeMessages, socketRef,
                             failTimersRef, connectionAttemptRef, isConnectingRef,
                             pendingConnectionRef, stateRef, isAuthenticated, mounted,
                             fetches, pendingAcks, sends >> ]_vars

\* a connection was started by hand after the timer was scheduled, and the timer
\* then fired and was skipped
C13_Witness ==
  /\ lastOp = "reconnectTimer"
  /\ ~started
  /\ reconnectTimeoutRef = "fired"
  /\ connectionState = "connecting"
  /\ isConnectingRef
  /\ fetches > 0

\* C14: for every attempt count n in 0..4 the policy, when it schedules, schedules
\* a delay in [min(1000*2^n, 30000), min(1000*2^n, 30000) + 1000); the delay of
\* the timer a handler has just scheduled is in that range for the count it was
\* given; the base delay never exceeds 30000 ms.
C14_DelayInRange ==
  /\ \A n \in 0..(maxReconnectAttempts - 1), j \in Jitters :
       LET t == handleReconnection(S, n, j)
           lo == IF 1000 * 2^n < 30000 THEN 1000 * 2^n ELSE 30000
       IN  t.reconnectTimeoutRef = "armed" =>
             (t.reconnectDelay >= lo /\ t.reconnectDelay < lo + 1000)
  /\ (policy # -1 /\ reconnectTimeoutRef = "armed") =>
       /\ policy \in 0..(maxReconnectAttempts - 1)
       /\ reconnectDelay >= 1000 * 2^policy
       /\ reconnectDelay < 1000 * 2^policy + 1000
  /\ \A n \in 0..MaxExponent : baseDelay(n) <= 30000

\* the policy has scheduled the last retry before the ceiling, with the largest jitter
C14_Witness ==
  /\ policy = maxReconnectAttempts - 1
  /\ reconnectTimeoutRef = "armed"
  /\ reconnectDelay = 16999

\* C15: after a successful connect and a joined_room event the first involuntary
\* disconnect empties the joined rooms, sets the reconnect counter to 1 and
\* schedules a reconnect timer with a delay in [1000, 2000) ms (n = 0); in general
\* the k-th consecutive involuntary disconnect schedules with n = k - 1.
C15_FirstDisconnectDelay ==
  [][ /\ ( /\ lastOp' = "disconnect"
           /\ connectionState = "connected"
           /\ joinedRooms # {}
           /\ reconnectAttempts = 0 ) =>
             /\ joinedRooms' = {}
             /\ reconnectAttempts' = 1
             /\ reconnectTimeoutRef' = "armed"
             /\ reconnectDelay' >= 1000
             /\ reconnectDelay' < 2000
      /\ ( /\ lastOp' = "disconnect"
           /\ connectionState = "connected"
           /\ reconnectTimeoutRef' = "armed" ) =>
             /\ reconnectDelay' >= 1000 * 2^(reconnectAttempts' - 1)
             /\ reconnectDelay' < 1000 * 2^(reconnectAttempts' - 1) + 1000 ]_vars

\* C16: the attempts started since the last transport open or teardown are counted,
\* the count never exceeds 3 whatever the reconnect counter is, only a transport
\* open or a teardown resets it, and no handler starts an attempt when it is 3:
\* connect() called then changes no state.
C16_AttemptCap ==
  [][ /\ connectionAttemptRef' \in 0..maxConnectionAttempts
      /\ started' =>
           /\ connectionAttemptRef < maxConnectionAttempts
           /\ connectionAttemptRef' = connectionAttemptRef + 1
      /\ (connectionAttemptRef' # connectionAttemptRef /\ ~started') =>
           /\ connectionAttemptRef' = 0
           /\ \/ lastOp' \in {"connect", "logout", "unmount"}
              \/ policy' >= maxReconnectAttempts /\ isShutdown' /\ socketRef' = NoSocket
      /\ (lastOp' = "reconnect" /\ ~started') =>
           connectionAttemptRef' = connectionAttemptRef
      /\ (lastOp' = "connectSocket" /\ connectionAttemptRef = maxConnectionAttempts) =>
           (UNCHANGED progVars /\ ~started') ]_vars

\* connect() was refused by the cap alone
C16_Witness ==
  /\ lastOp = "connectSocket"
  /\ ~started
  /\ connectionAttemptRef = maxConnectionAttempts
  /\ ~C4_Refusing
  /\ reconnectAttempts < maxConnectionAttempts

\* the failure counted reaches the ceiling: the policy shuts down and tears down
C17_CeilingTeardown ==
  /\ reconnectAttempts + 1 = maxReconnectAttempts
  /\ isShutdown'
  /\ reconnectAttempts' = 0

\* C17: the reconnect counter increases by exactly 1 on each involuntary
\* disconnect and each failed connection attempt (a failed credential fetch, a
\* transport that could not be opened), is reset to 0 by the transport open, by
\* reconnect() and by teardown (the teardown at the ceiling included), changes in
\* no other handler, and never exceeds 5.
C17_CounterDiscipline ==
  [][ /\ (mounted /\ lastOp' \in {"disconnect", "tokenFailed", "connect_error"}) =>
           (reconnectAttempts' = reconnectAttempts + 1 \/ C17_CeilingTeardown)
      /\ (lastOp' \in {"connect", "reconnect", "logout", "unmount"}) =>
           reconnectAttempts' = 0
      /\ (lastOp' \notin {"disconnect", "tokenFailed", "connect_error",
                          "connect", "reconnect", "logout", "unmount"}) =>
           reconnectAttempts' = reconnectAttempts
      /\ reconnectAttempts' <= maxReconnectAttempts ]_vars

\* C18: sendMessage called while connectionState is not connected, or with a
\* content that is empty after trimming, returns failure, appends nothing to the
\* timeline, starts no failure timer and emits no send_message.
C18_SendRejected ==
  [][ (lastOp' = "sendMessage") =>
        /\ (connectionState # "connected") =>
             /\ returned' = "false"
             /\ UNCHANGED << realtimeMessages, failTimersRef, pendingAcks, sends >>
             /\ emitted' = {}
        /\ \A c \in Contents :
             (trim(c) = << >>) =>
               LET t == sendMessage(S, c)
               IN  /\ t.returned = "false"
                   /\ t.realtimeMessages = realtimeMessages
                   /\ t.failTimersRef = failTimersRef
                   /\ t.emitted = {} ]_vars

\* the message sendMessage appended under this tempId is in the timeline with status sending
C19_Sending(id) ==
  \E i \in 1..Len(realtimeMessages) :
    /\ realtimeMessages[i].tempId = id
    /\ realtimeMessages[i].id = id
    /\ realtimeMessages[i].status = "sending"

\* C19: every message appended by sendMessage eventually leaves status sending,
\* also when its send was acknowledged and no message_confirmed ever arrives.
C19_EventuallyResolved ==
  \A id \in TempIds : C19_Sending(id) ~> ~C19_Sending(id)

\* C20: once a message is confirmed or failed, no message_confirmed, message_error,
\* acknowledgement failure or failure-timer firing changes its status or id, and
\* the only status changes that occur are sending to confirmed and sending to failed.
C20_TerminalStatus ==
  [][ \A i \in 1..Len(realtimeMessages) :
        (i <= Len(realtimeMessages')) =>
          /\ ( /\ realtimeMessages[i].status \in {"confirmed", "failed"}
               /\ lastOp' \in {"message_confirmed", "message_error", "ackFailed", "failTimer"} ) =>
                 /\ realtimeMessages'[i].status = realtimeMessages[i].status
                 /\ realtimeMessages'[i].id = realtimeMessages[i].id
          /\ (realtimeMessages'[i].status # realtimeMessages[i].status) =>
                 /\ realtimeMessages[i].status = "sending"
                 /\ realtimeMessages'[i].status \in {"confirmed", "failed"} ]_vars

\* C21: delivering message_confirmed a second time for the same tempId is a no-op:
\* in every state, after one delivery a second delivery of the same event leaves
\* the timeline and the pending-timer map as the first left them.
C21_ConfirmIdempotent ==
  \A id \in sentIds(S), sid \in ServerIds :
    LET once == onMessageConfirmed(S, id, sid, "confirmed")
        twice == onMessageConfirmed(once, id, sid, "confirmed")
    IN  /\ twice.realtimeMessages = once.realtimeMessages
        /\ twice.failTimersRef = once.failTimersRef

\* message_confirmed was delivered for a message with a pending send
C21_Witness ==
  /\ lastOp = "message_confirmed"
  /\ failTimersRef = {}
  /\ \E i \in 1..Len(realtimeMessages) :
       /\ realtimeMessages[i].tempId = "t1"
       /\ realtimeMessages[i].id = "s1"
       /\ realtimeMessages[i].status = "confirmed"

\* the timeline after the step is the timeline before it with the entries whose
\* tempId is id and whose status is sending set to failed
C22_OnlySendingFailed(id) ==
  /\ Len(realtimeMessages') = Len(realtimeMessages)
  /\ \A i \in 1..Len(realtimeMessages) :
       realtimeMessages'[i] =
         IF realtimeMessages[i].tempId = id /\ realtimeMessages[i].status = "sending"
         THEN [realtimeMessages[i] EXCEPT !.status = "failed"]
         ELSE realtimeMessages[i]

\* C22: an accepted sendMessage appends exactly one message with status sending,
\* the trimmed content and id = tempId, for a tempId not used before, registers
\* exactly one failure timer under that tempId and emits send_message with it; a
\* failure timer that fires sets its message to failed if it is still sending,
\* removes its own entry and changes no other message.
C22_OptimisticAppend ==
  [][ /\ (lastOp' = "sendMessage" /\ returned' = "pending") =>
           LET m == realtimeMessages'[Len(realtimeMessages')]
           IN  /\ realtimeMessages' = Append(realtimeMessages, m)
               /\ m.id = m.tempId
               /\ m.status = "sending"
               /\ m.content # << >>
               /\ Head(m.content) # " " /\ m.content[Len(m.content)] # " "
               /\ \E c \in Contents : m.content = trim(c)
               /\ m.tempId \notin sentIds(S)
               /\ m.tempId \notin failTimersRef
               /\ failTimersRef' = failTimersRef \cup {m.tempId}
               /\ emitted' = {[event |-> "send_message", tempId |-> m.tempId,
                               content |-> m.content]}
      /\ (lastOp' = "failTimer") =>
           \E id \in failTimersRef :
             /\ failTimersRef' = failTimersRef \ {id}
             /\ C22_OnlySendingFailed(id) ]_vars

\* the failure timer of t1 fired with a message of another user in the timeline
C22_Witness ==
  /\ lastOp = "failTimer"
  /\ failTimersRef = {}
  /\ \E i, j \in 1..Len(realtimeMessages) :
       /\ realtimeMessages[i].tempId = "t1"
       /\ realtimeMessages[i].status = "failed"
       /\ realtimeMessages[i].content = << "h", "i" >>
       /\ realtimeMessages[j].tempId = "none"
       /\ realtimeMessages[j].status = "sending"

\* C23: a successful acknowledgement of send_message cancels the failure timer of
\* its message and changes no status; a status becomes confirmed only in the
\* handler of a message_confirmed event, for the entries of one sent tempId, whose
\* id is replaced by the id the server assigned.
C23_ConfirmedOnlyByEvent ==
  [][ /\ (lastOp' = "ack") =>
           /\ realtimeMessages' = realtimeMessages
           /\ returned' = "true"
           /\ \E id \in pendingAcks :
                /\ failTimersRef' = failTimersRef \ {id}
                /\ pendingAcks' = pendingAcks \ {id}
      /\ \A i \in 1..Len(realtimeMessages') :
           ( /\ realtimeMessages'[i].status = "confirmed"
             /\ (i > Len(realtimeMessages) \/ realtimeMessages[i].status # "confirmed") ) =>
               /\ lastOp' = "message_confirmed"
               /\ i <= Len(realtimeMessages)
               /\ realtimeMessages'[i].tempId = realtimeMessages[i].tempId
               /\ realtimeMessages'[i].tempId \in sentIds(S)
               /\ realtimeMessages'[i].id \in ServerIds
               /\ realtimeMessages'[i].tempId \notin failTimersRef' ]_vars

\* the send of t1 was acknowledged: its timer is cancelled and it is still sending
C23_Witness ==
  /\ lastOp = "ack"
  /\ returned = "true"
  /\ failTimersRef = {}
  /\ \E i \in 1..Len(realtimeMessages) :
       /\ realtimeMessages[i].tempId = "t1"
       /\ realtimeMessages[i].id = "t1"
       /\ realtimeMessages[i].status = "sending"

\* the timeline after the step is the timeline before it with the entries whose
\* tempId is id set to failed
C24_OnlyIdFailed(id) ==
  /\ Len(realtimeMessages') = Len(realtimeMessages)
  /\ \A i \in 1..Len(realtimeMessages) :
       realtimeMessages'[i] =
         IF realtimeMessages[i].tempId = id
         THEN [realtimeMessages[i] EXCEPT !.status = "failed"]
         ELSE realtimeMessages[i]

\* C24: a message_error event sets the message with its tempId to failed, leaves
\* every other message unchanged and raises a notice that carries the error
\* string the server supplied.
C24_MessageError ==
  [][ /\ (lastOp' = "message_error") =>
           /\ \E id \in sentIds(S) : C24_OnlyIdFailed(id)
           /\ toasts' \in {{"room full"}, {"An unknown error occurred."}}
      /\ \A id \in sentIds(S) :
           LET t == onMessageError(S, id, "room full")
           IN  /\ t.toasts = {"room full"}
               /\ \A i \in 1..Len(realtimeMessages) :
                    (realtimeMessages[i].tempId = id) =>
                       t.realtimeMessages[i].status = "failed" ]_vars

\* message_error "room full" arrived for t1 with a message of another user in the timeline
C24_Witness ==
  /\ lastOp = "message_error"
  /\ toasts = {"room full"}
  /\ \E i, j \in 1..Len(realtimeMessages) :
       /\ realtimeMessages[i].tempId = "t1"
       /\ realtimeMessages[i].status = "failed"
       /\ realtimeMessages[j].tempId = "none"
       /\ realtimeMessages[j].status = "sending"

\* C25: every tempId in the pending-timer map belongs to a timeline message whose
\* status is sending, and message_confirmed, message_error, an acknowledgement
\* failure and the firing of the timer each remove the entry of their tempId.
C25_TimerMap ==
  [][ /\ \A id \in failTimersRef' :
           \E i \in 1..Len(realtimeMessages') :
             /\ realtimeMessages'[i].tempId = id
             /\ realtimeMessages'[i].status = "sending"
      /\ (lastOp' \in {"message_confirmed", "message_error", "ackFailed", "failTimer"}) =>
           \E id \in sentIds(S) :
             /\ id \notin failTimersRef'
             /\ failTimersRef' = failTimersRef \ {id} ]_vars

\* C26: a message that is sending with its failure timer pending when the
\* connection is lost or torn down is not left sending with no timer: after the
\* disconnect or the teardown it is failed or its timer is still pending, so that
\* it ends as failed.
C26_NoSilentDrop ==
  [][ (lastOp' \in {"disconnect", "logout"}) =>
        \A i \in 1..Len(realtimeMessages) :
          ( /\ realtimeMessages[i].status = "sending"
            /\ realtimeMessages[i].tempId \in failTimersRef ) =>
              /\ i <= Len(realtimeMessages')
              /\ \/ realtimeMessages'[i].status = "failed"
                 \/ realtimeMessages'[i].tempId \in failTimersRef' ]_vars

\* C27: the firing of a failure timer, an acknowledgement failure and a
\* message_error event leave connectionState, the reconnect counter, shutdown, the
\* reconnect timer, the joined rooms and the transport unchanged, do not invoke
\* the reconnection policy and start no connection attempt.
C27_SendErrorsLocal ==
  [][ (lastOp' \in {"failTimer", "ackFailed", "message_error"}) =>
        /\ UNCHANGED << connectionState, reconnectAttempts, isShutdown, reconnectTimeoutRef,
                        reconnectDelay, joinedRooms, socketRef, connectionAttemptRef,
                        isConnectingRef, fetches >>
        /\ ~started'
        /\ policy' = -1 ]_vars

\* the acknowledgement of t1 failed on a connected session that has joined a room
C27_Witness ==
  /\ lastOp = "ackFailed"
  /\ connectionState = "connected"
  /\ joinedRooms # {}
  /\ toasts = {"Server did not acknowledge the message."}
  /\ \E i \in 1..Len(realtimeMessages) :
       realtimeMessages[i].tempId = "t1" /\ realtimeMessages[i].status = "failed"

\* C28: every step that takes connectionState to disconnected (a disconnect
\* event, a transport error, a failed attempt, teardown or shutdown) leaves
\* JoinedRooms and TypingUsers both empty.
C28_DisconnectedClearsRooms ==
  [][ (connectionState # "disconnected" /\ connectionState' = "disconnected") =>
        (joinedRooms' = {} /\ typingUsers' = {}) ]_vars

\* C29: joinRoom(roomId) emits join_room only if connectionState is connected
\* and roomId is not in JoinedRooms, and never changes JoinedRooms itself; a room
\* enters JoinedRooms only in the step of a joined_room event.
C29_JoinRoomGuard ==
  [][ /\ (lastOp' = "joinRoom") =>
           /\ joinedRooms' = joinedRooms
           /\ \A e \in emitted' :
                /\ e.event = "join_room"
                /\ connectionState = "connected"
                /\ e.roomId \notin joinedRooms
      /\ (~(joinedRooms' \subseteq joinedRooms)) => lastOp' = "joined_room" ]_vars

\* C30: JoinedRooms changes only when joined_room adds its room, left_room
\* removes its room, or a disconnect or a teardown clears the set; the outbound
\* calls and every other event leave it as it was.
C30_JoinedRoomsFrame ==
  [][ (joinedRooms' # joinedRooms) =>
        \/ /\ lastOp' = "joined_room"
           /\ \E r \in ChatRooms : r \notin joinedRooms /\ joinedRooms' = joinedRooms \cup {r}
        \/ /\ lastOp' = "left_room"
           /\ \E r \in joinedRooms : joinedRooms' = joinedRooms \ {r}
        \/ /\ \/ lastOp' \in {"disconnect", "logout", "unmount"}
              \/ isShutdown' /\ ~isShutdown
              \* the open transport a new attempt replaces delivers its disconnect event
              \/ lastOp' = "tokenOk" /\ socketRef.phase = "open"
           /\ joinedRooms' = {} ]_vars

\* a join request for r2 went out while r1 was joined, and r1 is still the
\* only room joined
C30_Witness ==
  /\ lastOp = "joinRoom"
  /\ emitted = {[event |-> "join_room", roomId |-> "r2"]}
  /\ joinedRooms = {"r1"}

\* C31: a user_typing event of the local user leaves TypingUsers unchanged; an
\* event of another user puts its username in when isTyping is true and takes it
\* out when isTyping is false, and touches no other name; the local user's name
\* is never in TypingUsers.
C31_TypingUsers ==
  [][ /\ Usernames[LocalUser] \notin typingUsers'
      /\ (lastOp' = "user_typing") =>
           /\ \A n \in (typingUsers' \ typingUsers) \cup (typingUsers \ typingUsers') :
                \E u \in RemoteUsers : n = Usernames[u]
           /\ \E u \in RemoteUsers \cup {LocalUser}, b \in BOOLEAN :
                LET t == onUserTyping(S, u, Usernames[u], b).typingUsers
                IN  /\ typingUsers' = t
                    /\ (u = LocalUser) => (t = typingUsers)
                    /\ (u # LocalUser) =>
                         /\ (Usernames[u] \in t) = b
                         /\ t \ {Usernames[u]} = typingUsers \ {Usernames[u]} ]_vars

\* another user's typing notice is shown while the session is connected
C31_Witness ==
  /\ lastOp = "user_typing"
  /\ connectionState = "connected"
  /\ typingUsers = {Usernames["bob"]}

\* C32: a new_message event appends an entry only when its tempId matches no
\* entry already in the timeline: a push for a message the client holds
\* optimistically creates no second entry for it.
C32_NoDuplicateOnPush ==
  [][ (lastOp' = "new_message" /\ Len(realtimeMessages') > Len(realtimeMessages)) =>
        LET pushed == realtimeMessages'[Len(realtimeMessages')]
        IN  \/ pushed.tempId = "none"
            \/ \A i \in 1..Len(realtimeMessages) :
                 realtimeMessages[i].tempId # pushed.tempId ]_vars

\* C33: a new_message event keeps every entry of the timeline as it was, in its
\* place; an entry that stays in the timeline changes only in a step of
\* message_confirmed or of a failure path (message_error, failure timer,
\* acknowledgement failure), which changes the entries of one tempId and keeps
\* their tempId.
C33_PushKeepsEntries ==
  [][ /\ (lastOp' = "new_message") =>
           /\ Len(realtimeMessages') >= Len(realtimeMessages)
           /\ SubSeq(realtimeMessages', 1, Len(realtimeMessages)) = realtimeMessages
      /\ \A i \in 1..Len(realtimeMessages) :
           (i <= Len(realtimeMessages') /\ realtimeMessages'[i] # realtimeMessages[i]) =>
             /\ lastOp' \in {"message_confirmed", "message_error", "failTimer", "ackFailed"}
             /\ realtimeMessages'[i].tempId = realtimeMessages[i].tempId
             /\ \A j \in 1..Len(realtimeMessages) :
                  (j <= Len(realtimeMessages') /\ realtimeMessages'[j] # realtimeMessages[j]) =>
                    realtimeMessages[j].tempId = realtimeMessages[i].tempId ]_vars

\* the push for t1 landed behind the optimistic entry t1, which is as it was
C33_Witness ==
  /\ lastOp = "new_message"
  /\ Len(realtimeMessages) = 2
  /\ realtimeMessages[1] = [id |-> "t1", tempId |-> "t1", content |-> << "h", "i" >>,
                            status |-> "sending"]
  /\ realtimeMessages[2].tempId = "t1"
  /\ realtimeMessages[2].id \in ServerIds

\* C34: a transport is opened only by the step in which a credential fetch of
\* a connection attempt succeeds; that step uses up the one fetch and opens one
\* transport, and every attempt issues exactly one fetch.
C34_OneFetchPerTransport ==
  [][ /\ (socketRef'.phase = "opening" /\ socketRef' # socketRef) => lastOp' = "tokenOk"
      /\ (lastOp' = "tokenOk") =>
           /\ fetches > 0
           /\ fetches' = fetches - 1
           /\ socketRef' = NewSocket
      /\ (fetches' > fetches) => (started' /\ fetches' = fetches + 1)
      /\ started' => fetches' = fetches + 1 ]_vars

\* a transport was opened with the credential of one attempt while the fetch of
\* another attempt is still pending
C34_Witness ==
  /\ lastOp = "tokenOk"
  /\ socketRef = NewSocket
  /\ fetches = 1

\* C35: isConnectingRef is set only while a connection attempt is pending: it is
\* never set while connectionState is connected, nor while connectionState is
\* disconnected with no credential fetch pending and no transport opening.
C35_InFlightFlag ==
  isConnectingRef =>
    /\ connectionState # "connected"
    /\ connectionState = "disconnected" => (fetches > 0 \/ socketRef.phase = "opening")

\* C36: at most one reconnect timer is outstanding: the only timer pending is
\* the one reconnectTimeoutRef holds, scheduling a reconnect leaves exactly one
\* timer whatever was scheduled before, and teardown leaves none.
C36_OneReconnectTimer ==
  [][ /\ reconnectTimers' \in {0, 1}
      /\ (reconnectTimers' = 1) = (reconnectTimeoutRef' = "armed")
      /\ (lastOp' \in {"logout", "unmount"}) => reconnectTimers' = 0 ]_vars

\* the reconnection policy has scheduled the timer of a second failure in a row
C36_Witness ==
  /\ lastOp = "tokenFailed"
  /\ policy > 1
  /\ reconnectTimeoutRef = "armed"
  /\ reconnectTimers = 1

\* C37: isShutdown goes from true to false only in a reconnect() call; logout,
\* unmount and login keep it, and while it is set neither a login nor the
\* debounce timer of a login starts a connection attempt.
C37_ShutdownSticky ==
  [][ /\ (isShutdown /\ ~isShutdown') => lastOp' = "reconnect"
      /\ (isShutdown /\ lastOp' \in {"login", "logout", "unmount", "debounceTimer"}) =>
           (isShutdown' /\ ~started' /\ fetches' = fetches) ]_vars

\* shutdown was set, the user logged out and in again, and the debounce timer of
\* the new login has fired
C37_Witness ==
  /\ isShutdown /\ isAuthenticated
  /\ lastOp = "debounceTimer"
  /\ pendingConnectionRef = "fired"
  /\ connectionState = "disconnected"
  /\ reconnectAttempts = 0
  /\ fetches = 0

\* C38: teardown, disconnect events and the steps of a reconnection leave the
\* timeline as it was; the timeline loses an entry only in a clearMessages call,
\* so the messages of a torn-down session are still there after a new login.
C38_TimelineSurvivesTeardown ==
  [][ /\ (lastOp' \in {"logout", "unmount", "disconnect", "login", "debounceTimer",
                       "reconnectTimer", "reconnect", "connectSocket", "tokenOk",
                       "tokenFailed", "connect", "connected"}) =>
           realtimeMessages' = realtimeMessages
      /\ (\/ Len(realtimeMessages') < Len(realtimeMessages)
          \/ \E i \in 1..Len(realtimeMessages) :
               realtimeMessages'[i].tempId # realtimeMessages[i].tempId) =>
           (lastOp' = "clearMessages" /\ realtimeMessages' = << >>) ]_vars

\* the user is logged in again and the message of the session torn down before
\* is in the timeline, still sending
C38_Witness ==
  /\ lastOp = "login"
  /\ Len(realtimeMessages) = 1
  /\ realtimeMessages[1].tempId = "t1"
  /\ realtimeMessages[1].status = "sending"
  /\ socketRef = NoSocket

\* C39: the history list holds only messages fetched for the roomId now
\* selected: the response to a request issued for a room selected before never
\* fills or extends the list.
C39_HistoryOfCurrentRoom ==
  \A i \in 1..Len(historyMessages) : historyMessages[i].roomId = historyRoomId

====
